---- MODULE Spec2Model ----
(***************************************************************************)
(* Model of the momentum and forecasting engines of momentum-ai            *)
(* (backend/app/core/momentum_engine.py, forecasting_engine.py).           *)
(*                                                                         *)
(* Numbers.  Scores, state components and posterior values are fixed-point *)
(* integers in tenths (50.0 is 500).  Momenta and posterior means are      *)
(* multiples of 0.5, so 0.6 x + 0.4 y is exact.  Probabilities of the      *)
(* forecasting engine are integers in ten-thousandths (0.25 is 2500).      *)
(*                                                                         *)
(* The Q-learning agent keeps action-values in thousandths and epsilon in   *)
(* millionths; forecasts of the time-series forecaster are in              *)
(* ten-thousandths of a point.                                             *)
(*                                                                         *)
(* Library calls.  scipy's solve_ivp, scikit-learn's Gaussian process,     *)
(* statsmodels' fits and numpy's random generator are not part of the      *)
(* repository.  Their results enter the operators as arguments (solution,  *)
(* posterior, sim, fit, init, explore) that the actions draw from small    *)
(* sets.                                                                   *)
(***************************************************************************)
EXTENDS Integers, Sequences, FiniteSets, TLC

VARIABLES training_data, gp, req, ret, q_table, epsilon, seen, updates, frames, db

vars == <<training_data, gp, req, ret, q_table, epsilon, seen, updates, frames, db>>

None == [op |-> "none"]

(***************************************************************************)
(* Bounds of the model.                                                    *)
(***************************************************************************)
MaxEvidence == 12

(***************************************************************************)
(* Program constants.                                                      *)
(***************************************************************************)
MinSamples == 10
DefaultMean == 500
DefaultStd == 200
PriorMean == 0
PriorStd == 10

clip(x, lo, hi) == IF x < lo THEN lo ELSE IF x > hi THEN hi ELSE x

(***************************************************************************)
(* StudentState and HeatEquationMomentumModel.solve.                       *)
(* solution is what solve_ivp returned: success and the last column y of   *)
(* the sampled solution, <<M, A1..A4, P1..P5>>.                            *)
(***************************************************************************)
StudentState(ts, m, a, p, lv, il) ==
  [timestamp |-> ts, momentum_score |-> m, academic_state |-> a,
   psychological_state |-> p, learning_velocity |-> lv, intervention_level |-> il]

\* mutant of solve: the integrator's success flag is not consulted
solve_ignoring_failure(initial_state, time_horizon, params, solution) ==
  LET final_state == solution.y
  IN  StudentState(initial_state.timestamp + time_horizon,
                   clip(final_state[1], 0, 1000),
                   SubSeq(final_state, 2, 5),
                   SubSeq(final_state, 6, 10),
                   <<final_state[1] - initial_state.momentum_score, time_horizon>>,
                   params.teacher_intervention)

solve(initial_state, time_horizon, params, solution) ==
  IF ~solution.success
    THEN initial_state
    ELSE LET final_state == solution.y
         IN  StudentState(initial_state.timestamp + time_horizon,
                          clip(final_state[1], 0, 1000),
                          SubSeq(final_state, 2, 5),
                          SubSeq(final_state, 6, 10),
                          <<final_state[1] - initial_state.momentum_score, time_horizon>>,
                          params.teacher_intervention)

(***************************************************************************)
(* BayesianMomentumEstimator.  The estimator is est = [training_data, gp]; *)
(* gp.fitted tells whether gp.fit has ever run and gp.train holds the      *)
(* evidence it was last fitted on.  posterior is the <<mean, std>> the     *)
(* fitted regressor returns at the queried features.                       *)
(***************************************************************************)
NewEstimator == [training_data |-> <<>>, gp |-> [fitted |-> FALSE, train |-> <<>>]]

\* mutant of update: the new pair is put in front of the evidence
update_prepending(est, features, momentum_score) ==
  LET data == <<<<features, momentum_score>>>> \o est.training_data
  IN  [training_data |-> data,
       gp |-> IF Len(data) > MinSamples
                THEN [fitted |-> TRUE, train |-> data]
                ELSE est.gp]

update(est, features, momentum_score) ==
  LET data == Append(est.training_data, <<features, momentum_score>>)
  IN  [training_data |-> data,
       gp |-> IF Len(data) > MinSamples
                THEN [fitted |-> TRUE, train |-> data]
                ELSE est.gp]

gp_predict(g, features, posterior) ==
  IF g.fitted THEN posterior ELSE <<PriorMean, PriorStd>>

\* mutant of predict: the default is returned only while the set is empty
predict_default_only_when_empty(est, features, posterior) ==
  IF Len(est.training_data) < 1
    THEN <<DefaultMean, DefaultStd>>
    ELSE gp_predict(est.gp, features, posterior)

predict(est, features, posterior) ==
  IF Len(est.training_data) < MinSamples
    THEN <<DefaultMean, DefaultStd>>
    ELSE gp_predict(est.gp, features, posterior)

\* norm.ppf((1 + 0.95) / 2) = 1.95996..., taken as 1.96
get_confidence_interval(est, features, posterior) ==
  LET ms == predict(est, features, posterior)
      half == (196 * ms[2]) \div 100
  IN  <<ms[1] - half, ms[1] + half>>

(***************************************************************************)
(* DeepQLearningAgent.  Action-values are in thousandths, epsilon is in    *)
(* millionths; products are truncated to the unit.  The agent is           *)
(* agent = [q_table, epsilon]; q_table maps a discretized state to its     *)
(* sequence of action-values.  What numpy's generator returned enters as   *)
(* arguments: init and next_init (np.random.uniform(0, 1, action_dim)),    *)
(* explore (np.random.random() < epsilon), random_action (randint).        *)
(***************************************************************************)
ActionDim == 6
Bins == 10
LearningRatePercent == 10
DiscountPercent == 95
EpsilonInit == 200000
EpsilonDecayPermille == 995
EpsilonMin == 10000

\* np.digitize(x, np.linspace(0, 100, bins)): the number of edges
\* 100 j / (bins - 1), j = 0..bins-1, that are at most x
digitize(x) == Cardinality({j \in 0..(Bins - 1) : 100 * j <= (Bins - 1) * x})

discretize_state(state) == [i \in DOMAIN state |-> digitize(state[i])]

NewAgent == [q_table |-> <<>>, epsilon |-> EpsilonInit]

\* if state_key not in self.q_table: self.q_table[state_key] = init
Initialised(q, key, init) ==
  IF key \in DOMAIN q THEN q
  ELSE [k \in (DOMAIN q) \cup {key} |-> IF k = key THEN init ELSE q[k]]

SeqMax(v) == CHOOSE x \in {v[i] : i \in DOMAIN v} : \A i \in DOMAIN v : v[i] <= x

\* np.argmax: the first index of the largest value, counted from 0
ArgMax(v) == (CHOOSE i \in DOMAIN v : /\ v[i] = SeqMax(v)
                                      /\ \A j \in DOMAIN v : j < i => v[j] < v[i]) - 1

get_action(agent, state, epsilon_greedy, init, explore, random_action) ==
  LET state_key == discretize_state(state)
      q == Initialised(agent.q_table, state_key, init)
  IN  [q_table |-> q,
       epsilon |-> agent.epsilon,
       action |-> IF epsilon_greedy /\ explore THEN random_action
                  ELSE ArgMax(q[state_key])]

\* mutant of Decay: epsilon decays without a floor
Decay_without_floor(eps) == (eps * EpsilonDecayPermille) \div 1000

\* max(self.epsilon_min, self.epsilon * self.epsilon_decay)
Decay(eps) ==
  LET e == (eps * EpsilonDecayPermille) \div 1000
  IN  IF e > EpsilonMin THEN e ELSE EpsilonMin

\* mutant of agent_update: the terminal flag is read the wrong way round
agent_update_done_inverted(agent, state, action, reward, next_state, done, init, next_init) ==
  LET state_key == discretize_state(state)
      next_state_key == discretize_state(next_state)
      q == Initialised(Initialised(agent.q_table, state_key, init),
                       next_state_key, next_init)
      current_q == q[state_key][action + 1]
      td_target == IF ~done THEN reward
                   ELSE reward + (DiscountPercent * SeqMax(q[next_state_key])) \div 100
      td_error == td_target - current_q
  IN  [q_table |-> [q EXCEPT ![state_key][action + 1] =
                               @ + (LearningRatePercent * td_error) \div 100],
       epsilon |-> Decay(agent.epsilon),
       current_q |-> current_q,
       td_target |-> td_target]

\* mutant of agent_update: the next state is looked up only when it is read
agent_update_lazy_next_state(agent, state, action, reward, next_state, done, init, next_init) ==
  LET state_key == discretize_state(state)
      next_state_key == discretize_state(next_state)
      q0 == Initialised(agent.q_table, state_key, init)
      q == IF done THEN q0 ELSE Initialised(q0, next_state_key, next_init)
      current_q == q[state_key][action + 1]
      td_target == IF done THEN reward
                   ELSE reward + (DiscountPercent * SeqMax(q[next_state_key])) \div 100
      td_error == td_target - current_q
  IN  [q_table |-> [q EXCEPT ![state_key][action + 1] =
                               @ + (LearningRatePercent * td_error) \div 100],
       epsilon |-> Decay(agent.epsilon),
       current_q |-> current_q,
       td_target |-> td_target]

\* mutant of agent_update: the action-value is set to the target
agent_update_overwriting(agent, state, action, reward, next_state, done, init, next_init) ==
  LET state_key == discretize_state(state)
      next_state_key == discretize_state(next_state)
      q == Initialised(Initialised(agent.q_table, state_key, init),
                       next_state_key, next_init)
      current_q == q[state_key][action + 1]
      td_target == IF done THEN reward
                   ELSE reward + (DiscountPercent * SeqMax(q[next_state_key])) \div 100
  IN  [q_table |-> [q EXCEPT ![state_key][action + 1] = td_target],
       epsilon |-> Decay(agent.epsilon),
       current_q |-> current_q,
       td_target |-> td_target]

\* DeepQLearningAgent.update; the result carries, next to the agent's two
\* fields, the locals current_q and td_target
agent_update(agent, state, action, reward, next_state, done, init, next_init) ==
  LET state_key == discretize_state(state)
      next_state_key == discretize_state(next_state)
      q == Initialised(Initialised(agent.q_table, state_key, init),
                       next_state_key, next_init)
      current_q == q[state_key][action + 1]
      td_target == IF done THEN reward
                   ELSE reward + (DiscountPercent * SeqMax(q[next_state_key])) \div 100
      td_error == td_target - current_q
  IN  [q_table |-> [q EXCEPT ![state_key][action + 1] =
                               @ + (LearningRatePercent * td_error) \div 100],
       epsilon |-> Decay(agent.epsilon),
       current_q |-> current_q,
       td_target |-> td_target]

\* no thread is inside a call and no database session is attached
NoFrames == <<>>
NoDatabase == [students |-> {}, assessments |-> <<>>, scores |-> <<>>, alerts |-> <<>>]
Detached ==
  /\ frames = NoFrames
  /\ db = NoDatabase

\* the agent right after __init__; seen is the set of discretized states that
\* calls have passed in so far, updates the number of update calls made
AgentFresh ==
  /\ q_table = NewAgent.q_table
  /\ epsilon = NewAgent.epsilon
  /\ seen = {}
  /\ updates = 0

(***************************************************************************)
(* MomentumScoreCalculator.calculate_comprehensive_score.  Returns the     *)
(* result dictionary and the estimator as the call leaves it.              *)
(***************************************************************************)
combine(pde, bayesian_mean) == (6 * pde + 4 * bayesian_mean) \div 10

\* mutant of calculate_comprehensive_score: the estimator is updated with the
\* deterministic prediction before it is asked for the probabilistic one
calculate_update_first(est, student_state, teacher_feedback, time_horizon, solution, posterior) ==
  LET params == [teacher_intervention |-> teacher_feedback,
                 external_stress |-> student_state.psychological_state[1] \div 10]
      pde_state == solve(student_state, time_horizon, params, solution)
      features == student_state.academic_state \o student_state.psychological_state
                    \o <<teacher_feedback>>
      est1 == update(est, features, pde_state.momentum_score)
      bayes == predict(est1, features, posterior)
      conf == get_confidence_interval(est1, features, posterior)
      combined_score == combine(pde_state.momentum_score, bayes[1])
  IN  [result |-> [momentum_score |-> combined_score,
                   pde_prediction |-> pde_state.momentum_score,
                   bayesian_prediction |-> bayes[1],
                   uncertainty |-> bayes[2],
                   confidence_interval |-> conf,
                   learning_velocity |-> pde_state.learning_velocity,
                   updated_state |-> pde_state],
       features |-> features,
       est |-> est1]

calculate_comprehensive_score(est, student_state, teacher_feedback, time_horizon, solution, posterior) ==
  LET params == [teacher_intervention |-> teacher_feedback,
                 external_stress |-> student_state.psychological_state[1] \div 10]
      pde_state == solve(student_state, time_horizon, params, solution)
      features == student_state.academic_state \o student_state.psychological_state
                    \o <<teacher_feedback>>
      bayes == predict(est, features, posterior)
      conf == get_confidence_interval(est, features, posterior)
      combined_score == combine(pde_state.momentum_score, bayes[1])
  IN  [result |-> [momentum_score |-> combined_score,
                   pde_prediction |-> pde_state.momentum_score,
                   bayesian_prediction |-> bayes[1],
                   uncertainty |-> bayes[2],
                   confidence_interval |-> conf,
                   learning_velocity |-> pde_state.learning_velocity,
                   updated_state |-> pde_state],
       features |-> features,
       est |-> update(est, features, combined_score)]

(***************************************************************************)
(* Input sets.                                                             *)
(***************************************************************************)
Academic0 == <<600, 550, 700, 650>>
Psych0 == <<400, 500, 600, 550, 450>>
Features0 == Academic0 \o Psych0 \o <<50>>
Features1 == Academic0 \o Psych0 \o <<0>>
FeatureSet == {Features0, Features1}
LabelSet == {675}

\* what the fitted regressor may return: a posterior mean below, inside and
\* above [0,100] (a Gaussian-process mean extrapolates a trend of its labels
\* beyond their range)
GPPosterior == {<<-100, 50>>, <<500, 50>>, <<1100, 50>>}

HorizonSet == {1}
CalcMomenta == {0, 1000}
CalcStates == {StudentState(0, m, Academic0, Psych0, <<0, 1>>, 0) : m \in CalcMomenta}
CalcFeedback == {50}
RawOut == <<620, 580, 720, 660, 420, 510, 600, 560, 450>>
CalcSolutions == {[success |-> s, y |-> <<m>> \o RawOut] :
                    s \in BOOLEAN, m \in {-200, 1300}}

est_now == [training_data |-> training_data, gp |-> gp]

(***************************************************************************)
(* Estimator alone: update, predict and get_confidence_interval calls.     *)
(***************************************************************************)
InitEst ==
  /\ training_data = NewEstimator.training_data
  /\ gp = NewEstimator.gp
  /\ req = None
  /\ ret = None
  /\ AgentFresh
  /\ Detached

Update ==
  /\ Len(training_data) < MaxEvidence
  /\ \E f \in FeatureSet, y \in LabelSet :
       LET e == update(est_now, f, y)
       IN  /\ training_data' = e.training_data
           /\ gp' = e.gp
           /\ ret' = [op |-> "update", features |-> f, momentum_score |-> y]
  /\ UNCHANGED <<req, q_table, epsilon, seen, updates, frames, db>>

Predict ==
  /\ \E f \in FeatureSet, post \in GPPosterior :
       ret' = [op |-> "predict", features |-> f, n |-> Len(training_data),
               value |-> predict(est_now, f, post)]
  /\ UNCHANGED <<training_data, gp, req, q_table, epsilon, seen, updates, frames, db>>

GetConfidenceInterval ==
  /\ \E f \in FeatureSet, post \in GPPosterior :
       ret' = [op |-> "confidence_interval", features |-> f, n |-> Len(training_data),
               value |-> get_confidence_interval(est_now, f, post)]
  /\ UNCHANGED <<training_data, gp, req, q_table, epsilon, seen, updates, frames, db>>

NextEst == Update \/ Predict \/ GetConfidenceInterval

SpecEst == InitEst /\ [][NextEst]_vars

(***************************************************************************)
(* Calculator: a sequence of calculate_comprehensive_score calls on one    *)
(* MomentumScoreCalculator.                                                *)
(***************************************************************************)
InitCalc == InitEst

CalculateComprehensiveScore ==
  /\ Len(training_data) < MaxEvidence
  /\ \E st \in CalcStates, fb \in CalcFeedback, h \in HorizonSet,
        sol \in CalcSolutions, post \in GPPosterior :
       LET c == calculate_comprehensive_score(est_now, st, fb, h, sol, post)
       IN  /\ training_data' = c.est.training_data
           /\ gp' = c.est.gp
           /\ ret' = [op |-> "calculate", student_state |-> st, teacher_feedback |-> fb,
                      n |-> Len(training_data), result |-> c.result]
  /\ UNCHANGED <<req, q_table, epsilon, seen, updates, frames, db>>

NextCalc == CalculateComprehensiveScore

SpecCalc == InitCalc /\ [][NextCalc]_vars

(***************************************************************************)
(* HeatEquationMomentumModel.solve alone: one call on a drawn input, with  *)
(* a drawn integrator result.                                              *)
(***************************************************************************)
SolveMomenta == {0, 250, 500, 750, 1000}
SolveAcademic == {Academic0, <<1000, 1000, 1000, 1000>>, <<0, 0, 0, 0>>}
SolvePsych == {Psych0, <<1000, 0, 0, 0, 1000>>}
SolveStates == {StudentState(0, m, a, p, <<0, 1>>, 0) :
                  m \in SolveMomenta, a \in SolveAcademic, p \in SolvePsych}
SolveHorizons == {1, 7}
SolveFeedback == {0, 50}
RawMomenta == {-200, 0, 625, 1000, 1985}
RawAcademic == {<<620, 580, 720, 660>>, <<1220, 1220, 1220, 1220>>, <<-1, 0, 3, 2>>}
RawPsych == {<<420, 510, 600, 560, 450>>, <<1060, 130, 130, 130, 1040>>, <<0, -2, 0, 0, 0>>}
Solutions == {[success |-> s, y |-> <<m>> \o a \o p] :
                s \in BOOLEAN, m \in RawMomenta, a \in RawAcademic, p \in RawPsych}

InitSolve ==
  /\ training_data = NewEstimator.training_data
  /\ gp = NewEstimator.gp
  /\ req \in {[op |-> "solve", initial_state |-> st, time_horizon |-> h,
               params |-> [teacher_intervention |-> fb,
                           external_stress |-> st.psychological_state[1] \div 10]] :
                st \in SolveStates, h \in SolveHorizons, fb \in SolveFeedback}
  /\ ret = None
  /\ AgentFresh
  /\ Detached

Solve ==
  /\ req.op = "solve"
  /\ ret = None
  /\ \E sol \in Solutions :
       ret' = [op |-> "solve", success |-> sol.success,
               state |-> solve(req.initial_state, req.time_horizon, req.params, sol)]
  /\ UNCHANGED <<training_data, gp, req, q_table, epsilon, seen, updates, frames, db>>

NextSolve == Solve

SpecSolve == InitSolve /\ [][NextSolve]_vars

(***************************************************************************)
(* Forecasting engine.  Momentum, academic, psychological and support      *)
(* levels are whole points here (0..100); probabilities, risks and         *)
(* stability scores are in ten-thousandths.                                *)
(***************************************************************************)
abs(x) == IF x < 0 THEN -x ELSE x

(***************************************************************************)
(* CatastropheTheoryAnalyzer.  With a = s/25 and b = t/25,                 *)
(* 4a^3 + 27b^2 = (4 s^3 + 675 t^2) / 15625; with x = m/25,                *)
(* 3x^2 + a = (3 m^2 + 25 s) / 625.                                        *)
(***************************************************************************)
bifurcation_value(s, t) == abs(4 * s * s * s + 675 * t * t)

\* len(find_equilibria(a, b)): the number of real roots np.roots reports for
\* x^3 + a x + b.  Negative 4a^3 + 27b^2 gives three real roots, positive one;
\* zero is met on whole points only at a = b = 0, where the root 0 comes thrice.
find_equilibria(s, t) ==
  IF 4 * s * s * s + 675 * t * t <= 0 THEN 3 ELSE 1

is_on_bifurcation_set(s, t) == 10 * bifurcation_value(s, t) < 15625

\* mutant of analyze_collapse_risk: instability is tested before bifurcation
analyze_instability_first(momentum, stress, support) ==
  LET s == stress - 50
      t == support - 50
      m == momentum - 50
      equilibria == find_equilibria(s, t)
      near_bifurcation == is_on_bifurcation_set(s, t)
      is_stable == 3 * m * m + 25 * s > 0
      collapse_risk == IF ~is_stable THEN 6000
                       ELSE IF near_bifurcation THEN 8000
                       ELSE IF equilibria > 1 THEN 5000
                       ELSE 2000
  IN  [collapse_risk |-> collapse_risk,
       near_bifurcation |-> near_bifurcation,
       is_stable |-> is_stable,
       equilibria |-> equilibria,
       bifurcation_distance |-> bifurcation_value(s, t)]

analyze_collapse_risk(momentum, stress, support) ==
  LET s == stress - 50
      t == support - 50
      m == momentum - 50
      equilibria == find_equilibria(s, t)
      near_bifurcation == is_on_bifurcation_set(s, t)
      is_stable == 3 * m * m + 25 * s > 0
      collapse_risk == IF near_bifurcation THEN 8000
                       ELSE IF ~is_stable THEN 6000
                       ELSE IF equilibria > 1 THEN 5000
                       ELSE 2000
  IN  [collapse_risk |-> collapse_risk,
       near_bifurcation |-> near_bifurcation,
       is_stable |-> is_stable,
       equilibria |-> equilibria,
       bifurcation_distance |-> bifurcation_value(s, t)]

(***************************************************************************)
(* TimeSeriesForecaster.  Series values are whole points; forecast values  *)
(* are in ten-thousandths of a point.  fit is what the statsmodels calls   *)
(* did: stage tells whether model.fit raised ("fit_failed"), a forecast    *)
(* call raised ("forecast_failed") or all returned ("ok"), in which case   *)
(* fit carries the arrays they returned.  A result records in raised       *)
(* whether the call left by an exception.                                  *)
(***************************************************************************)
MinSeries == 10
DecayPercent == 98
Band == 100000

\* last_value * (1 - decay_rate) ** i, truncated to ten-thousandths
RECURSIVE Decayed(_, _)
Decayed(v, i) == IF i = 0 THEN v ELSE (Decayed(v, i - 1) * DecayPercent) \div 100

_baseline_forecast(time_series, horizon) ==
  LET last_value == IF Len(time_series) > 0 THEN time_series[Len(time_series)] ELSE 50
      forecast == [i \in 1..horizon |-> Decayed(10000 * last_value, i - 1)]
  IN  [raised |-> FALSE,
       forecast |-> forecast,
       lower_bound |-> [i \in 1..horizon |-> forecast[i] - Band],
       upper_bound |-> [i \in 1..horizon |-> forecast[i] + Band],
       model |-> "baseline"]

Raised == [raised |-> TRUE, forecast |-> <<>>, lower_bound |-> <<>>,
           upper_bound |-> <<>>, model |-> "exception"]

\* mutant of fit_predict_arima: only the fit is inside the try block
fit_predict_arima_guarding_fit_only(time_series, forecast_horizon, fit) ==
  IF Len(time_series) < MinSeries
    THEN _baseline_forecast(time_series, forecast_horizon)
    ELSE IF fit.stage = "fit_failed"
      THEN _baseline_forecast(time_series, forecast_horizon)
      ELSE IF fit.stage = "forecast_failed"
        THEN Raised
        ELSE [raised |-> FALSE,
              forecast |-> fit.forecast,
              lower_bound |-> fit.lower_bound,
              upper_bound |-> fit.upper_bound,
              model |-> "ARIMA"]

fit_predict_arima(time_series, forecast_horizon, fit) ==
  IF Len(time_series) < MinSeries
    THEN _baseline_forecast(time_series, forecast_horizon)
    ELSE IF fit.stage # "ok"
      THEN _baseline_forecast(time_series, forecast_horizon)
      ELSE [raised |-> FALSE,
            forecast |-> fit.forecast,
            lower_bound |-> fit.lower_bound,
            upper_bound |-> fit.upper_bound,
            model |-> "ARIMA"]

\* the exponential-smoothing result has no bounds: they are left empty
fit_predict_exponential_smoothing(time_series, forecast_horizon, fit) ==
  IF Len(time_series) < MinSeries
    THEN _baseline_forecast(time_series, forecast_horizon)
    ELSE IF fit.stage # "ok"
      THEN _baseline_forecast(time_series, forecast_horizon)
      ELSE [raised |-> FALSE,
            forecast |-> fit.forecast,
            lower_bound |-> <<>>,
            upper_bound |-> <<>>,
            model |-> "ExponentialSmoothing"]

Flat(v, n) == [i \in 1..n |-> v]

\* what the statsmodels calls can do on a horizon of h days
FitOutcomes(h) ==
  {[stage |-> "fit_failed", forecast |-> <<>>, lower_bound |-> <<>>, upper_bound |-> <<>>],
   [stage |-> "forecast_failed", forecast |-> <<>>, lower_bound |-> <<>>, upper_bound |-> <<>>],
   [stage |-> "ok", forecast |-> Flat(520000, h), lower_bound |-> Flat(480000, h),
    upper_bound |-> Flat(560000, h)]}

(***************************************************************************)
(* LyapunovStabilityAnalyzer.                                              *)
(***************************************************************************)
\* histories of the model are shorter than 20 points, where the exponent is 0.0;
\* mean_log stands for the mean logarithmic divergence of a longer series
calculate_lyapunov_exponent(trajectory, mean_log) ==
  IF Len(trajectory) < 20 THEN 0 ELSE mean_log

\* academic_state and psychological_state are the one-element arrays the
\* engine passes, so their means are the elements
assess_stability(current_momentum, academic, psychological) ==
  LET deviation3 == abs(current_momentum - 70) + abs(academic - 70)
                      + abs(psychological - 40)
  IN  IF deviation3 < 45
        THEN [stability |-> "stable", stability_score |-> 9000,
              total_deviation3 |-> deviation3]
        ELSE IF deviation3 < 90
          THEN [stability |-> "marginally_stable", stability_score |-> 5000,
                total_deviation3 |-> deviation3]
          ELSE [stability |-> "unstable", stability_score |-> 1000,
                total_deviation3 |-> deviation3]

(***************************************************************************)
(* ReinforcementLearningCollapsePredictor (never fitted by the engine).    *)
(* A feature vector keeps the three entries the heuristic reads:           *)
(* mean5 = 5 x features[0], trend = features[4], vol16 = 16 x features[9]^2*)
(***************************************************************************)
RECURSIVE SumSeq(_)
SumSeq(q) == IF q = <<>> THEN 0 ELSE Head(q) + SumSeq(Tail(q))

Last5(h) == SubSeq(h, Len(h) - 4, Len(h))

Diff(q) == [i \in 1..(Len(q) - 1) |-> q[i + 1] - q[i]]

\* mutant of extract_features: the placeholder of a short history is 0
extract_features_zero_placeholder(momentum_history) ==
  IF Len(momentum_history) >= 5
    THEN LET w == Last5(momentum_history)
             d == Diff(w)
         IN  [mean5 |-> SumSeq(w),
              trend |-> w[5] - w[1],
              vol16 |-> 4 * SumSeq([i \in 1..4 |-> d[i] * d[i]]) - SumSeq(d) * SumSeq(d)]
    ELSE [mean5 |-> 0, trend |-> 0, vol16 |-> 0]

extract_features(momentum_history) ==
  IF Len(momentum_history) >= 5
    THEN LET w == Last5(momentum_history)
             d == Diff(w)
         IN  [mean5 |-> SumSeq(w),
              trend |-> w[5] - w[1],
              vol16 |-> 4 * SumSeq([i \in 1..4 |-> d[i] * d[i]]) - SumSeq(d) * SumSeq(d)]
    ELSE [mean5 |-> 250, trend |-> 50, vol16 |-> 40000]

\* trained stands for the output of the trained regressor, read only when fitted
predict_collapse_probability(fitted, features, trained) ==
  LET r1 == IF features.mean5 < 150 THEN 4000
            ELSE IF features.mean5 < 250 THEN 2000 ELSE 0
      r2 == IF features.trend < -5 THEN 3000
            ELSE IF features.trend < 0 THEN 1000 ELSE 0
      r3 == IF features.vol16 > 1600 THEN 2000 ELSE 0
      risk == r1 + r2 + r3
  IN  IF ~fitted
        THEN (IF risk < 10000 THEN risk ELSE 10000)
        ELSE clip(trained, 0, 10000)

(***************************************************************************)
(* AcademicCollapseForecastingEngine helpers.                              *)
(***************************************************************************)
\* Optional[float]: None is the empty sequence, a day d is <<d>>
NoCollapse == <<>>

\* mutant of _estimate_time_to_collapse: a day at the threshold counts
_estimate_time_to_collapse_inclusive(momentum_forecast) ==
  LET below == {d \in 1..Len(momentum_forecast) : momentum_forecast[d] <= 20}
  IN  IF below = {} THEN NoCollapse
      ELSE <<(CHOOSE d \in below : \A e \in below : d <= e) - 1>>

_estimate_time_to_collapse(momentum_forecast) ==
  LET below == {d \in 1..Len(momentum_forecast) : momentum_forecast[d] < 20}
  IN  IF below = {} THEN NoCollapse
      ELSE <<(CHOOSE d \in below : \A e \in below : d <= e) - 1>>

\* mutant of _identify_risk_factors: distress counts from 70 on
_identify_risk_factors_distress_inclusive(M, A, P, catastrophe, stability) ==
  LET factors ==
        (IF M < 30 THEN <<"Very low momentum score">> ELSE <<>>)
        \o (IF A < 40 THEN <<"Poor academic performance">> ELSE <<>>)
        \o (IF P >= 70 THEN <<"High psychological distress">> ELSE <<>>)
        \o (IF catastrophe.near_bifurcation
              THEN <<"Near critical tipping point">> ELSE <<>>)
        \o (IF ~catastrophe.is_stable THEN <<"Unstable trajectory">> ELSE <<>>)
        \o (IF stability.stability = "unstable"
              THEN <<"System instability detected">> ELSE <<>>)
  IN  IF Len(factors) = 0 THEN <<"No major risk factors identified">> ELSE factors

_identify_risk_factors(M, A, P, catastrophe, stability) ==
  LET factors ==
        (IF M < 30 THEN <<"Very low momentum score">> ELSE <<>>)
        \o (IF A < 40 THEN <<"Poor academic performance">> ELSE <<>>)
        \o (IF P > 70 THEN <<"High psychological distress">> ELSE <<>>)
        \o (IF catastrophe.near_bifurcation
              THEN <<"Near critical tipping point">> ELSE <<>>)
        \o (IF ~catastrophe.is_stable THEN <<"Unstable trajectory">> ELSE <<>>)
        \o (IF stability.stability = "unstable"
              THEN <<"System instability detected">> ELSE <<>>)
  IN  IF Len(factors) = 0 THEN <<"No major risk factors identified">> ELSE factors

Contains(q, x) == \E i \in DOMAIN q : q[i] = x

Intervention(type, priority) == [type |-> type, priority |-> priority]

\* mutant of _generate_interventions: the stress rule fires from 70 on
_generate_interventions_stress_inclusive(collapse_prob, risk_factors, momentum, stress) ==
  (IF collapse_prob > 6000
     THEN <<Intervention("immediate_counseling", "critical")>> ELSE <<>>)
  \o (IF stress >= 70
        THEN <<Intervention("stress_management", "high")>> ELSE <<>>)
  \o (IF momentum < 30
        THEN <<Intervention("academic_recovery_plan", "high")>> ELSE <<>>)
  \o (IF Contains(risk_factors, "Near critical tipping point")
        THEN <<Intervention("preventive_intervention", "urgent")>> ELSE <<>>)
  \o <<Intervention("ongoing_monitoring", "medium")>>

\* mutant of _generate_interventions: counseling is listed after stress
\* management
_generate_interventions_counseling_second(collapse_prob, risk_factors, momentum, stress) ==
  (IF stress > 70
     THEN <<Intervention("stress_management", "high")>> ELSE <<>>)
  \o (IF collapse_prob > 6000
        THEN <<Intervention("immediate_counseling", "critical")>> ELSE <<>>)
  \o (IF momentum < 30
        THEN <<Intervention("academic_recovery_plan", "high")>> ELSE <<>>)
  \o (IF Contains(risk_factors, "Near critical tipping point")
        THEN <<Intervention("preventive_intervention", "urgent")>> ELSE <<>>)
  \o <<Intervention("ongoing_monitoring", "medium")>>

_generate_interventions(collapse_prob, risk_factors, momentum, stress) ==
  (IF collapse_prob > 6000
     THEN <<Intervention("immediate_counseling", "critical")>> ELSE <<>>)
  \o (IF stress > 70
        THEN <<Intervention("stress_management", "high")>> ELSE <<>>)
  \o (IF momentum < 30
        THEN <<Intervention("academic_recovery_plan", "high")>> ELSE <<>>)
  \o (IF Contains(risk_factors, "Near critical tipping point")
        THEN <<Intervention("preventive_intervention", "urgent")>> ELSE <<>>)
  \o <<Intervention("ongoing_monitoring", "medium")>>

\* mutant of _calculate_optimal_intervention_timing: among equally steep
\* declines the last one is taken
_calculate_optimal_intervention_timing_last_steepest(momentum_forecast) ==
  IF Len(momentum_forecast) < 2 THEN 0
  ELSE LET decline_rate == Diff(momentum_forecast)
           idx == DOMAIN decline_rate
       IN  IF \A i \in idx : decline_rate[i] >= 0
             THEN Len(momentum_forecast) \div 2
             ELSE LET steepest == CHOOSE i \in idx :
                                    /\ \A j \in idx : decline_rate[i] <= decline_rate[j]
                                    /\ \A j \in idx : j > i => decline_rate[j] > decline_rate[i]
                      d == (steepest - 1) - 2
                  IN  IF d > 0 THEN d ELSE 0

_calculate_optimal_intervention_timing(momentum_forecast) ==
  IF Len(momentum_forecast) < 2 THEN 0
  ELSE LET decline_rate == Diff(momentum_forecast)
           idx == DOMAIN decline_rate
       IN  IF \A i \in idx : decline_rate[i] >= 0
             THEN Len(momentum_forecast) \div 2
             ELSE LET steepest == CHOOSE i \in idx :
                                    /\ \A j \in idx : decline_rate[i] <= decline_rate[j]
                                    /\ \A j \in idx : j < i => decline_rate[j] > decline_rate[i]
                      d == (steepest - 1) - 2
                  IN  IF d > 0 THEN d ELSE 0

(***************************************************************************)
(* StochasticDynamicsModel.simulate_trajectory.  The Euler-Maruyama runs   *)
(* draw Gaussian noise; sim is what they left in the three trajectory      *)
(* matrices, column by column (one column per time step): the mean of each *)
(* channel over the runs and, for momentum, the number of runs below 20.   *)
(* The function's own work is the choice of the columns it reports.        *)
(***************************************************************************)
NSimulations == 100
StepsPerDay == 10

\* int(n_days / self.dt) with dt = 0.1: the double quotient n_days / 0.1 is
\* 10 n_days for every whole n_days from 1 to 10^5
n_steps(n_days) == StepsPerDay * n_days

\* mutant of daily_indices: every time step is reported
daily_indices_every_step(steps) == [i \in 1..steps |-> i - 1]

\* np.arange(0, n_steps, int(1 / self.dt)), as a sequence of 0-based columns
daily_indices(steps) ==
  [i \in 1..((steps + StepsPerDay - 1) \div StepsPerDay) |-> StepsPerDay * (i - 1)]

\* columns[:, indices] of a matrix given by its column summaries
Columns(summary, indices) == [i \in DOMAIN indices |-> summary[indices[i] + 1]]

\* below is the number of runs under the collapse threshold in each column of
\* the matrix passed in; trajectories[:, -1] is its last column
_calculate_collapse_probability(below, n_simulations) ==
  (10000 * below[Len(below)]) \div n_simulations

simulate_trajectory(n_days, n_simulations, sim) ==
  LET idx == daily_indices(n_steps(n_days))
  IN  [momentum_mean |-> Columns(sim.M_mean, idx),
       academic_mean |-> Columns(sim.A_mean, idx),
       psychological_mean |-> Columns(sim.P_mean, idx),
       collapse_probability |->
         _calculate_collapse_probability(Columns(sim.M_below, idx), n_simulations)]

(***************************************************************************)
(* AcademicCollapseForecastingEngine.comprehensive_forecast.               *)
(***************************************************************************)
Current(history) == IF Len(history) > 0 THEN history[Len(history)] ELSE 50

\* mutant of combined_collapse_prob: the stability term is score - 1
combined_with_negated_stability(catastrophe_risk, stochastic_prob, ml_prob, stability_score) ==
  (2500 * catastrophe_risk + 3000 * stochastic_prob + 2500 * ml_prob
     + 2000 * (stability_score - 10000)) \div 10000

\* mutant of combined_collapse_prob: the simulation weighs 0.40 and the
\* pattern predictor 0.15
combined_with_heavier_simulation(catastrophe_risk, stochastic_prob, ml_prob, stability_score) ==
  (2500 * catastrophe_risk + 4000 * stochastic_prob + 1500 * ml_prob
     + 2000 * (10000 - stability_score)) \div 10000

combined_collapse_prob(catastrophe_risk, stochastic_prob, ml_prob, stability_score) ==
  (2500 * catastrophe_risk + 3000 * stochastic_prob + 2500 * ml_prob
     + 2000 * (10000 - stability_score)) \div 10000

\* mutant of risk_level: the lower bounds are inclusive
risk_level_inclusive(p) ==
  IF p >= 7000 THEN [risk_level |-> "critical", intervention_urgency |-> 95]
  ELSE IF p >= 5000 THEN [risk_level |-> "high", intervention_urgency |-> 75]
  ELSE IF p >= 3000 THEN [risk_level |-> "medium", intervention_urgency |-> 50]
  ELSE [risk_level |-> "low", intervention_urgency |-> 20]

risk_level(p) ==
  IF p > 7000 THEN [risk_level |-> "critical", intervention_urgency |-> 95]
  ELSE IF p > 5000 THEN [risk_level |-> "high", intervention_urgency |-> 75]
  ELSE IF p > 3000 THEN [risk_level |-> "medium", intervention_urgency |-> 50]
  ELSE [risk_level |-> "low", intervention_urgency |-> 20]

rl_fitted == FALSE

\* mutant of comprehensive_forecast: the momentum forecast reported is the
\* time-series forecaster's
comprehensive_forecast_reporting_series(momentum_history, academic_history, psychological_history, current_support, forecast_days, sim, fit) ==
  LET M_current == Current(momentum_history)
      A_current == Current(academic_history)
      P_current == Current(psychological_history)
      catastrophe_result == analyze_collapse_risk(M_current, P_current, current_support)
      stochastic_result == simulate_trajectory(forecast_days, NSimulations, sim)
      arima_result == IF Len(momentum_history) >= 5
                        THEN fit_predict_arima(momentum_history, forecast_days, fit)
                        ELSE _baseline_forecast(momentum_history, forecast_days)
      lyapunov_exp == calculate_lyapunov_exponent(momentum_history, 0)
      stability_result == assess_stability(M_current, A_current, P_current)
      features == extract_features(momentum_history)
      ml_collapse_prob == predict_collapse_probability(rl_fitted, features, 0)
      p == combined_collapse_prob(catastrophe_result.collapse_risk,
                                  stochastic_result.collapse_probability,
                                  ml_collapse_prob,
                                  stability_result.stability_score)
      level == risk_level(p)
      risk_factors == _identify_risk_factors(M_current, A_current, P_current,
                                             catastrophe_result, stability_result)
  IN  [result |->
         [collapse_probability |-> p,
          collapse_risk_level |-> level.risk_level,
          days_until_collapse |-> _estimate_time_to_collapse(stochastic_result.momentum_mean),
          collapse_confidence |-> 8500,
          primary_risk_factors |-> risk_factors,
          intervention_urgency |-> level.intervention_urgency,
          momentum_forecast |-> arima_result.forecast,
          academic_forecast |-> stochastic_result.academic_mean,
          psychological_forecast |-> stochastic_result.psychological_mean,
          is_stable |-> stability_result.stability = "stable",
          lyapunov_exponent |-> lyapunov_exp,
          bifurcation_nearness |-> catastrophe_result.bifurcation_distance,
          recommended_interventions |->
            _generate_interventions(p, risk_factors, M_current, P_current),
          optimal_intervention_timing |->
            _calculate_optimal_intervention_timing(stochastic_result.momentum_mean)],
       parts |->
         [catastrophe |-> catastrophe_result,
          stochastic_probability |-> stochastic_result.collapse_probability,
          arima_result |-> arima_result,
          ml_collapse_prob |-> ml_collapse_prob,
          stability |-> stability_result]]

\* fit is what the statsmodels calls inside fit_predict_arima did
comprehensive_forecast(momentum_history, academic_history, psychological_history, current_support, forecast_days, sim, fit) ==
  LET M_current == Current(momentum_history)
      A_current == Current(academic_history)
      P_current == Current(psychological_history)
      catastrophe_result == analyze_collapse_risk(M_current, P_current, current_support)
      stochastic_result == simulate_trajectory(forecast_days, NSimulations, sim)
      arima_result == IF Len(momentum_history) >= 5
                        THEN fit_predict_arima(momentum_history, forecast_days, fit)
                        ELSE _baseline_forecast(momentum_history, forecast_days)
      lyapunov_exp == calculate_lyapunov_exponent(momentum_history, 0)
      stability_result == assess_stability(M_current, A_current, P_current)
      features == extract_features(momentum_history)
      ml_collapse_prob == predict_collapse_probability(rl_fitted, features, 0)
      p == combined_collapse_prob(catastrophe_result.collapse_risk,
                                  stochastic_result.collapse_probability,
                                  ml_collapse_prob,
                                  stability_result.stability_score)
      level == risk_level(p)
      risk_factors == _identify_risk_factors(M_current, A_current, P_current,
                                             catastrophe_result, stability_result)
  IN  [result |->
         [collapse_probability |-> p,
          collapse_risk_level |-> level.risk_level,
          days_until_collapse |-> _estimate_time_to_collapse(stochastic_result.momentum_mean),
          collapse_confidence |-> 8500,
          primary_risk_factors |-> risk_factors,
          intervention_urgency |-> level.intervention_urgency,
          momentum_forecast |-> stochastic_result.momentum_mean,
          academic_forecast |-> stochastic_result.academic_mean,
          psychological_forecast |-> stochastic_result.psychological_mean,
          is_stable |-> stability_result.stability = "stable",
          lyapunov_exponent |-> lyapunov_exp,
          bifurcation_nearness |-> catastrophe_result.bifurcation_distance,
          recommended_interventions |->
            _generate_interventions(p, risk_factors, M_current, P_current),
          optimal_intervention_timing |->
            _calculate_optimal_intervention_timing(stochastic_result.momentum_mean)],
       parts |->
         [catastrophe |-> catastrophe_result,
          stochastic_probability |-> stochastic_result.collapse_probability,
          arima_result |-> arima_result,
          ml_collapse_prob |-> ml_collapse_prob,
          stability |-> stability_result]]

(***************************************************************************)
(* Inputs of the forecasting engine.                                       *)
(***************************************************************************)
MaxHist == 6
ForecastDays == 6

Ramp(start, step, zig, n) ==
  [i \in 1..n |-> clip(start + (i - 1) * step + (IF i % 2 = 0 THEN zig ELSE 0), 0, 100)]

HistLens == {1, 4, 5, MaxHist}
\* a history long enough for the time-series model to be fitted
LongHistory == Ramp(45, -1, 0, MinSeries)
\* a low history that swings without a trend
SwingHistory == Ramp(10, 0, 30, 5)
MomentumHistories ==
  {Ramp(start, step, zig, n) :
     start \in {25, 45, 70}, step \in {-8, -1, 3}, zig \in {0, 30}, n \in HistLens}
    \cup {LongHistory, SwingHistory}
AcademicLevels == {35, 70}
PsychLevels == {40, 50, 70, 75}
SupportLevels == {30, 50, 60}

ForecastDaySet == {1, ForecastDays}

ForecastRequests ==
  {[op |-> "forecast", momentum_history |-> h,
    academic_history |-> Flat(a, Len(h)), psychological_history |-> Flat(ps, Len(h)),
    current_support |-> sup, forecast_days |-> fd] :
     h \in MomentumHistories, a \in AcademicLevels, ps \in PsychLevels,
     sup \in SupportLevels, fd \in ForecastDaySet}

(***************************************************************************)
(* What the Monte-Carlo runs can leave behind.  A daily shape of the mean  *)
(* momentum is spread over the time steps of each day; the number of runs  *)
(* below 20 in a column is kept compatible with the column's mean (runs    *)
(* below the threshold lie in [0,20), the others in [20,100]).             *)
(***************************************************************************)
Steady(n) == [d \in 1..n |-> 60]
Slide(n) == [d \in 1..n |-> clip(60 - 15 * d, 0, 100)]
Recover(n) == [d \in 1..n |-> clip(10 + 5 * d, 0, 100)]
Touch(n) == [d \in 1..n |-> IF d = 1 THEN 50 ELSE IF d = 2 THEN 20 ELSE 15]
LateDrop(n) ==
  [d \in 1..n |-> IF d <= n - 2 THEN 60 - 2 * (d - 1)
                  ELSE clip(60 - 2 * (n - 3) - 20 * (d - (n - 2)), 0, 100)]
MeanPatterns(n) == {Steady(n), Slide(n), Recover(n), Touch(n), LateDrop(n)}

StepSeries(daily, steps) ==
  [k \in 1..steps |->
     LET v == daily[(k - 1) \div StepsPerDay + 1]
     IN  IF (k - 1) % StepsPerDay = 0 THEN v ELSE clip(v - 1, 0, 100)]

MinBelow(mean, n_runs) ==
  IF mean >= 20 THEN 0 ELSE (n_runs * (20 - mean) + 19) \div 20
MaxBelow(mean, n_runs) ==
  clip((n_runs * (100 - mean) - 1) \div 80, 0, n_runs)
Feasible(c, mean, n_runs) == clip(c, MinBelow(mean, n_runs), MaxBelow(mean, n_runs))

MakeSim(daily, c_day, c_end, n_days, n_runs) ==
  LET steps == n_steps(n_days)
      M == StepSeries(daily, steps)
      last_day == StepsPerDay * (n_days - 1) + 1
  IN  [M_mean |-> M,
       A_mean |-> Flat(55, steps),
       P_mean |-> Flat(45, steps),
       M_below |-> [k \in 1..steps |->
                      Feasible(IF k <= last_day THEN c_day ELSE c_end, M[k], n_runs)]]

CollapseCounts == {0, 15, 25, 40, 50, 75, NSimulations}
SimOutcomes(n) ==
  {MakeSim(mm, c, c, n, NSimulations) : c \in CollapseCounts, mm \in MeanPatterns(n)}

\* the statsmodels calls are made on histories of 10 points and more only
FitDraws(request) ==
  IF Len(request.momentum_history) >= MinSeries
    THEN FitOutcomes(request.forecast_days)
    ELSE {[stage |-> "not_called", forecast |-> <<>>, lower_bound |-> <<>>,
           upper_bound |-> <<>>]}

InitForecast ==
  /\ training_data = NewEstimator.training_data
  /\ gp = NewEstimator.gp
  /\ req \in ForecastRequests
  /\ ret = None
  /\ AgentFresh
  /\ Detached

ComprehensiveForecast ==
  /\ req.op = "forecast"
  /\ ret = None
  /\ \E sim \in SimOutcomes(req.forecast_days), fit \in FitDraws(req) :
       LET f == comprehensive_forecast(req.momentum_history, req.academic_history,
                                       req.psychological_history, req.current_support,
                                       req.forecast_days, sim, fit)
       IN  ret' = [op |-> "forecast", result |-> f.result, parts |-> f.parts,
                   sim |-> sim, fit |-> fit]
  /\ UNCHANGED <<training_data, gp, req, q_table, epsilon, seen, updates, frames, db>>

NextForecast == ComprehensiveForecast

SpecForecast == InitForecast /\ [][NextForecast]_vars

(***************************************************************************)
(* Two comprehensive_forecast calls in a row on one engine, with the same  *)
(* histories, support level and horizon (test_forecast_consistency); each  *)
(* call runs its own Monte-Carlo simulation.                               *)
(***************************************************************************)
TestRequest ==
  [op |-> "forecast", momentum_history |-> <<70, 68, 66, 64, 62>>,
   academic_history |-> <<75, 73, 71, 69, 67>>,
   psychological_history |-> <<35, 37, 39, 41, 43>>,
   current_support |-> 70, forecast_days |-> ForecastDays]

RepeatRequests ==
  {TestRequest} \cup
  {r \in ForecastRequests :
     /\ r.momentum_history \in {Ramp(45, -1, 0, 4), Ramp(25, -8, 30, 5)}
     /\ r.forecast_days = ForecastDays}

InitRepeat ==
  /\ training_data = NewEstimator.training_data
  /\ gp = NewEstimator.gp
  /\ req \in RepeatRequests
  /\ ret = None
  /\ AgentFresh
  /\ Detached

\* the second call; the record keeps the first call's result next to its own
ComprehensiveForecastAgain ==
  /\ req.op = "forecast"
  /\ ret.op = "forecast"
  /\ \E sim \in SimOutcomes(req.forecast_days), fit \in FitDraws(req) :
       LET f == comprehensive_forecast(req.momentum_history, req.academic_history,
                                       req.psychological_history, req.current_support,
                                       req.forecast_days, sim, fit)
       IN  ret' = [op |-> "forecast_again", first |-> ret.result,
                   first_parts |-> ret.parts, result |-> f.result, parts |-> f.parts]
  /\ UNCHANGED <<training_data, gp, req, q_table, epsilon, seen, updates, frames, db>>

NextRepeat == ComprehensiveForecast \/ ComprehensiveForecastAgain

SpecRepeat == InitRepeat /\ [][NextRepeat]_vars

(***************************************************************************)
(* StochasticDynamicsModel.simulate_trajectory alone: one call with drawn  *)
(* n_days and n_simulations.  The call's record keeps, next to the value   *)
(* returned, the number of runs that are below 20 after the last time step.*)
(***************************************************************************)
SimDays == {1, 2, ForecastDays}
SimRuns == {10, NSimulations}
SimRequests ==
  {[op |-> "simulate", n_days |-> n, n_simulations |-> r] : n \in SimDays, r \in SimRuns}
SimCounts(n_runs) == {0, n_runs \div 4, n_runs \div 2, n_runs}
SimMatrices(n_days, n_runs) ==
  {MakeSim(mm, c_day, c_end, n_days, n_runs) :
     mm \in MeanPatterns(n_days), c_day \in SimCounts(n_runs), c_end \in SimCounts(n_runs)}

InitSim ==
  /\ training_data = NewEstimator.training_data
  /\ gp = NewEstimator.gp
  /\ req \in SimRequests
  /\ ret = None
  /\ AgentFresh
  /\ Detached

SimulateTrajectory ==
  /\ req.op = "simulate"
  /\ ret = None
  /\ \E sim \in SimMatrices(req.n_days, req.n_simulations) :
       ret' = [op |-> "simulate",
               value |-> simulate_trajectory(req.n_days, req.n_simulations, sim),
               end_below |-> sim.M_below[Len(sim.M_below)]]
  /\ UNCHANGED <<training_data, gp, req, q_table, epsilon, seen, updates, frames, db>>

NextSim == SimulateTrajectory

SpecSim == InitSim /\ [][NextSim]_vars

(***************************************************************************)
(* TimeSeriesForecaster alone: one fit_predict_arima or                    *)
(* fit_predict_exponential_smoothing call on a drawn series and horizon.   *)
(***************************************************************************)
MaxSeries == 11

SeriesLast == {0, 50, 73, 100}
Series(n, last) == [i \in 1..n |-> clip(last + 2 * (n - i), 0, 100)]
SeriesSet == {Series(n, last) : n \in 0..MaxSeries, last \in SeriesLast}
TSHorizons == {1, 2, 3, ForecastDays}
TSRequests ==
  {[op |-> m, time_series |-> ts, forecast_horizon |-> h] :
     m \in {"fit_predict_arima", "fit_predict_exponential_smoothing"},
     ts \in SeriesSet, h \in TSHorizons}

InitTS ==
  /\ training_data = NewEstimator.training_data
  /\ gp = NewEstimator.gp
  /\ req \in TSRequests
  /\ ret = None
  /\ AgentFresh
  /\ Detached

FitPredictArima ==
  /\ req.op = "fit_predict_arima"
  /\ ret = None
  /\ \E fit \in FitOutcomes(req.forecast_horizon) :
       ret' = [op |-> "forecast_series", stage |-> fit.stage,
               value |-> fit_predict_arima(req.time_series, req.forecast_horizon, fit)]
  /\ UNCHANGED <<training_data, gp, req, q_table, epsilon, seen, updates, frames, db>>

FitPredictExponentialSmoothing ==
  /\ req.op = "fit_predict_exponential_smoothing"
  /\ ret = None
  /\ \E fit \in FitOutcomes(req.forecast_horizon) :
       ret' = [op |-> "forecast_series", stage |-> fit.stage,
               value |-> fit_predict_exponential_smoothing(req.time_series,
                                                           req.forecast_horizon, fit)]
  /\ UNCHANGED <<training_data, gp, req, q_table, epsilon, seen, updates, frames, db>>

NextTS == FitPredictArima \/ FitPredictExponentialSmoothing

SpecTS == InitTS /\ [][NextTS]_vars

(***************************************************************************)
(* DeepQLearningAgent alone: get_action and update calls on one agent.     *)
(* The agent starts fresh, or as earlier calls left it: after a sweep of   *)
(* terminal updates with reward -100 over the six actions of one state, or *)
(* after DecaySteps terminal updates of one (state, action) pair.          *)
(***************************************************************************)
MaxUpdates == 2
DecaySteps == 595

StateA == <<5, 50>>
StateA2 == <<8, 50>>
StateB == <<95, 50>>
RawStates == {StateA2, StateB}
UpdatePairs == {<<StateA, StateA2>>, <<StateA, StateB>>}
UpdateActions == {ActionDim - 1}
RandomActions == {0, ActionDim - 1}
Rewards == {-1000, 2000}
SweepReward == -100000
Vec0 == <<500, 500, 500, 500, 500, 500>>
Vec1 == <<100, 900, 300, 0, 999, 700>>
InitVectors == {Vec0, Vec1}

\* one update call on the recorded agent st = [q_table, epsilon, seen]
Step(st, state, action, reward, next_state, done, init, next_init) ==
  LET u == agent_update([q_table |-> st.q_table, epsilon |-> st.epsilon],
                        state, action, reward, next_state, done, init, next_init)
  IN  [q_table |-> u.q_table,
       epsilon |-> u.epsilon,
       seen |-> st.seen \cup {discretize_state(state), discretize_state(next_state)}]

FreshAgent == [q_table |-> NewAgent.q_table, epsilon |-> NewAgent.epsilon, seen |-> {}]

RECURSIVE Swept(_)
Swept(k) ==
  IF k = 0 THEN FreshAgent
  ELSE Step(Swept(k - 1), StateB, k - 1, SweepReward, StateB, TRUE, Vec1, Vec1)

\* k terminal updates of (StateA, action 0) with reward -1, from st
RECURSIVE Repeated(_, _)
Repeated(st, k) ==
  IF k = 0 THEN st
  ELSE IF k = 1 THEN Step(st, StateA, 0, -1000, StateA, TRUE, Vec0, Vec0)
  ELSE LET half == Repeated(st, k \div 2)
       IN  IF half.epsilon >= EpsilonMin THEN Repeated(half, k - k \div 2) ELSE half

AgentStates == {FreshAgent, Swept(ActionDim), Repeated(FreshAgent, DecaySteps)}

agent_now == [q_table |-> q_table, epsilon |-> epsilon, seen |-> seen]

InitAgent ==
  /\ training_data = NewEstimator.training_data
  /\ gp = NewEstimator.gp
  /\ req = None
  /\ ret = None
  /\ \E st \in AgentStates :
       /\ q_table = st.q_table
       /\ epsilon = st.epsilon
       /\ seen = st.seen
  /\ updates = 0
  /\ Detached

\* the random draws a call does not make are not enumerated
DrawsFor(keys) == IF keys \subseteq DOMAIN q_table THEN {Vec0} ELSE InitVectors

GetAction ==
  /\ \E state \in RawStates, epsilon_greedy \in BOOLEAN :
       \E init \in DrawsFor({discretize_state(state)}),
          explore \in (IF epsilon_greedy THEN BOOLEAN ELSE {FALSE}) :
         \E random_action \in (IF explore THEN RandomActions ELSE {0}) :
           LET g == get_action(agent_now, state, epsilon_greedy, init, explore,
                               random_action)
           IN  /\ q_table' = g.q_table
               /\ epsilon' = g.epsilon
               /\ seen' = seen \cup {discretize_state(state)}
               /\ ret' = [op |-> "get_action", state |-> state,
                          epsilon_greedy |-> epsilon_greedy, action |-> g.action]
  /\ UNCHANGED <<training_data, gp, req, updates, frames, db>>

AgentUpdate ==
  /\ updates < MaxUpdates
  /\ \E pair \in UpdatePairs, action \in UpdateActions, reward \in Rewards,
        done \in BOOLEAN :
       \E init \in DrawsFor({discretize_state(pair[1]), discretize_state(pair[2])}) :
         LET u == agent_update(agent_now, pair[1], action, reward, pair[2], done,
                               init, init)
         IN  /\ q_table' = u.q_table
             /\ epsilon' = u.epsilon
             /\ seen' = seen \cup {discretize_state(pair[1]), discretize_state(pair[2])}
             /\ ret' = [op |-> "update", state |-> pair[1], action |-> action,
                        reward |-> reward, next_state |-> pair[2], done |-> done,
                        current_q |-> u.current_q, td_target |-> u.td_target]
  /\ updates' = updates + 1
  /\ UNCHANGED <<training_data, gp, req, frames, db>>

NextAgent == GetAction \/ AgentUpdate

SpecAgent == InitAgent /\ [][NextAgent]_vars

(***************************************************************************)
(* Two threads inside update on one instance: both on one                  *)
(* DeepQLearningAgent, or both on one BayesianMomentumEstimator.  The      *)
(* methods take no lock, so another thread can run between any two         *)
(* statements, and between the read and the write of an augmented          *)
(* assignment.  One action is one statement (or one half of `+=` and of    *)
(* the epsilon assignment) of one thread; frames[t] is the thread's        *)
(* position, its arguments and its locals.  req keeps the instance as it   *)
(* was before the two calls.                                               *)
(***************************************************************************)
Threads == {1, 2}

ThreadCalls ==
  {[state |-> StateA, action |-> ActionDim - 1, reward |-> 2000,
    next_state |-> ns, done |-> d] : ns \in {StateA2, StateB}, d \in BOOLEAN}

\* the rows np.random.uniform hands to a thread, should it insert one
ThreadDraw(t) == IF t = 1 THEN Vec0 ELSE Vec1

AgentFrame(t, call) ==
  [pc |-> "init_state", state |-> call.state, action |-> call.action,
   reward |-> call.reward, next_state |-> call.next_state, done |-> call.done,
   init |-> ThreadDraw(t), next_init |-> ThreadDraw(t),
   state_key |-> discretize_state(call.state),
   next_state_key |-> discretize_state(call.next_state),
   current_q |-> 0, td_error |-> 0, loaded |-> 0]

EstimatorCalls ==
  {[features |-> f, momentum_score |-> y] : f \in FeatureSet, y \in LabelSet}

EstimatorFrame(t, call) ==
  [pc |-> "append", features |-> call.features,
   momentum_score |-> call.momentum_score, snapshot |-> <<>>]

RECURSIVE Fed(_)
Fed(k) == IF k = 0 THEN NewEstimator ELSE update(Fed(k - 1), Features0, 675)

\* estimators one and two updates short of the first fit, and a fitted one
EstimatorStates == {Fed(MinSamples - 1), Fed(MinSamples), Fed(MinSamples + 1)}

InitThreads ==
  \/ /\ \E st \in AgentStates :
          /\ q_table = st.q_table
          /\ epsilon = st.epsilon
          /\ seen = st.seen
          /\ req = [op |-> "threads", kind |-> "agent",
                    instance |-> [q_table |-> st.q_table, epsilon |-> st.epsilon]]
     /\ updates = 0
     /\ training_data = NewEstimator.training_data
     /\ gp = NewEstimator.gp
     /\ frames \in {[t \in Threads |-> AgentFrame(t, c[t])] : c \in [Threads -> ThreadCalls]}
     /\ ret = None
     /\ db = NoDatabase
  \/ /\ \E est \in EstimatorStates :
          /\ training_data = est.training_data
          /\ gp = est.gp
          /\ req = [op |-> "threads", kind |-> "estimator", instance |-> est]
     /\ AgentFresh
     /\ frames \in {[t \in Threads |-> EstimatorFrame(t, c[t])] :
                      c \in [Threads -> EstimatorCalls]}
     /\ ret = None
     /\ db = NoDatabase

At(t, pc) == frames # NoFrames /\ frames[t].pc = pc

\* if state_key not in self.q_table: self.q_table[state_key] = uniform(...)
InitStateRow(t) ==
  /\ At(t, "init_state")
  /\ q_table' = Initialised(q_table, frames[t].state_key, frames[t].init)
  /\ seen' = seen \cup {frames[t].state_key}
  /\ frames' = [frames EXCEPT ![t].pc = "init_next"]
  /\ UNCHANGED <<training_data, gp, req, ret, epsilon, updates, db>>

\* if next_state_key not in self.q_table: self.q_table[next_state_key] = ...
InitNextRow(t) ==
  /\ At(t, "init_next")
  /\ q_table' = Initialised(q_table, frames[t].next_state_key, frames[t].next_init)
  /\ seen' = seen \cup {frames[t].next_state_key}
  /\ frames' = [frames EXCEPT ![t].pc = "read_q"]
  /\ UNCHANGED <<training_data, gp, req, ret, epsilon, updates, db>>

\* current_q = self.q_table[state_key][action]
ReadCurrentQ(t) ==
  /\ At(t, "read_q")
  /\ frames' = [frames EXCEPT ![t].pc = "target",
                              ![t].current_q = q_table[frames[t].state_key][frames[t].action + 1]]
  /\ UNCHANGED <<training_data, gp, req, ret, q_table, epsilon, seen, updates, db>>

\* td_target = ...; td_error = td_target - current_q
ComputeTarget(t) ==
  /\ At(t, "target")
  /\ LET f == frames[t]
         td_target == IF f.done THEN f.reward
                      ELSE f.reward
                             + (DiscountPercent * SeqMax(q_table[f.next_state_key])) \div 100
     IN  frames' = [frames EXCEPT ![t].pc = "load_q",
                                 ![t].td_error = td_target - f.current_q]
  /\ UNCHANGED <<training_data, gp, req, ret, q_table, epsilon, seen, updates, db>>

\* self.q_table[state_key][action] += ...: the element is read
LoadQ(t) ==
  /\ At(t, "load_q")
  /\ frames' = [frames EXCEPT ![t].pc = "store_q",
                              ![t].loaded = q_table[frames[t].state_key][frames[t].action + 1]]
  /\ UNCHANGED <<training_data, gp, req, ret, q_table, epsilon, seen, updates, db>>

\* self.q_table[state_key][action] += ...: the sum is stored
StoreQ(t) ==
  /\ At(t, "store_q")
  /\ LET f == frames[t]
     IN  q_table' = [q_table EXCEPT ![f.state_key][f.action + 1] =
                       f.loaded + (LearningRatePercent * f.td_error) \div 100]
  /\ frames' = [frames EXCEPT ![t].pc = "load_epsilon"]
  /\ UNCHANGED <<training_data, gp, req, ret, epsilon, seen, updates, db>>

\* self.epsilon = max(...): self.epsilon is read
LoadEpsilon(t) ==
  /\ At(t, "load_epsilon")
  /\ frames' = [frames EXCEPT ![t].pc = "store_epsilon", ![t].loaded = epsilon]
  /\ UNCHANGED <<training_data, gp, req, ret, q_table, epsilon, seen, updates, db>>

\* self.epsilon = max(...): the result is stored and the call returns
StoreEpsilon(t) ==
  /\ At(t, "store_epsilon")
  /\ epsilon' = Decay(frames[t].loaded)
  /\ updates' = updates + 1
  /\ frames' = [frames EXCEPT ![t].pc = "done"]
  /\ UNCHANGED <<training_data, gp, req, ret, q_table, seen, db>>

\* self.training_data.append((features, momentum_score))
AppendEvidence(t) ==
  /\ At(t, "append")
  /\ training_data' = Append(training_data, <<frames[t].features, frames[t].momentum_score>>)
  /\ frames' = [frames EXCEPT ![t].pc = "check"]
  /\ UNCHANGED <<gp, req, ret, q_table, epsilon, seen, updates, db>>

\* if len(self.training_data) > 10; X and y are built from the list
SnapshotEvidence(t) ==
  /\ At(t, "check")
  /\ frames' = IF Len(training_data) > MinSamples
                 THEN [frames EXCEPT ![t].pc = "fit", ![t].snapshot = training_data]
                 ELSE [frames EXCEPT ![t].pc = "done"]
  /\ UNCHANGED <<training_data, gp, req, ret, q_table, epsilon, seen, updates, db>>

\* self.gp.fit(X, y)
FitEvidence(t) ==
  /\ At(t, "fit")
  /\ gp' = [fitted |-> TRUE, train |-> frames[t].snapshot]
  /\ frames' = [frames EXCEPT ![t].pc = "done"]
  /\ UNCHANGED <<training_data, req, ret, q_table, epsilon, seen, updates, db>>

NextThreads ==
  \E t \in Threads :
    \/ InitStateRow(t) \/ InitNextRow(t) \/ ReadCurrentQ(t) \/ ComputeTarget(t)
    \/ LoadQ(t) \/ StoreQ(t) \/ LoadEpsilon(t) \/ StoreEpsilon(t)
    \/ AppendEvidence(t) \/ SnapshotEvidence(t) \/ FitEvidence(t)

SpecThreads == InitThreads /\ [][NextThreads]_vars

(***************************************************************************)
(* MomentumService behind the two routes POST /momentum/calculate and      *)
(* POST /forecast/collapse.  db is the database: the student ids, and the  *)
(* assessment, momentum-score and alert rows in insertion order.  It holds *)
(* no academic metrics and no teacher feedback, for which the service has  *)
(* defaults.  Rows carry the columns the service reads back.  Scores are   *)
(* stored in tenths and handed to the forecasting engine in whole points.  *)
(* A result is [status, db, body]: the HTTP status the route answers with, *)
(* the database after the request and the response body.                   *)
(***************************************************************************)
MaxRecords == 2
MinForecastDays == 7
DefaultTeacherFeedback == 50
DefaultMomentum == 500
DefaultLevel == 50

NoBody == <<>>

Assessment1 ==
  [student_id |-> "s1", stress_level |-> 4, motivation |-> 5, confidence |-> 6,
   resilience |-> 7, sleep_quality |-> 4, social_support |-> 5, family_support |-> 6]

\* s1 has an assessment, s2 has none, s3 is not a student
StudentIds == {"s1", "s2", "s3"}
InitialDatabase ==
  [students |-> {"s1", "s2"}, assessments |-> <<Assessment1>>,
   scores |-> <<>>, alerts |-> <<>>]

\* query(...).filter(student_id == ...) in insertion (date) order
RowsOf(table, student_id) ==
  LET Mine(r) == r.student_id = student_id
  IN  SelectSeq(table, Mine)

Points(tenths) == tenths \div 10

\* no AcademicMetric row: the academic state is [50.0] * 4
_build_student_state(assessment, current_momentum) ==
  StudentState(0, current_momentum, <<500, 500, 500, 500>>,
               <<100 * assessment.stress_level, 100 * assessment.motivation,
                 100 * assessment.confidence, 100 * assessment.resilience,
                 (100 * (assessment.sleep_quality + assessment.social_support
                           + assessment.family_support)) \div 3>>,
               <<0, 1>>, 0)

\* no TeacherFeedback row: 5.0
_get_average_teacher_feedback(database, student_id) == DefaultTeacherFeedback

_generate_alerts(database, student_id, momentum_score) ==
  IF momentum_score < 300
    THEN [database EXCEPT !.alerts = Append(@,
           [student_id |-> student_id, alert_type |-> "low_momentum",
            severity |-> "critical"])]
    ELSE IF momentum_score < 500
      THEN [database EXCEPT !.alerts = Append(@,
             [student_id |-> student_id, alert_type |-> "low_momentum",
              severity |-> "medium"])]
      ELSE database

\* MomentumService.calculate_student_momentum on a service whose calculator
\* holds the estimator est; raised tells whether it left by ValueError
calculate_student_momentum(database, est, student_id, teacher_feedback, solution) ==
  IF student_id \notin database.students
    THEN [raised |-> "ValueError", db |-> database, body |-> NoBody, est |-> est]
  ELSE IF RowsOf(database.assessments, student_id) = <<>>
    THEN [raised |-> "ValueError", db |-> database, body |-> NoBody, est |-> est]
  ELSE
    LET assessments == RowsOf(database.assessments, student_id)
        latest_assessment == assessments[Len(assessments)]
        previous == RowsOf(database.scores, student_id)
        current_momentum == IF previous = <<>> THEN DefaultMomentum
                            ELSE previous[Len(previous)].momentum_score
        student_state == _build_student_state(latest_assessment, current_momentum)
        feedback == IF teacher_feedback = <<>>
                      THEN _get_average_teacher_feedback(database, student_id)
                      ELSE teacher_feedback[1]
        c == calculate_comprehensive_score(est, student_state, feedback, 1, solution,
                                           <<PriorMean, PriorStd>>)
        saved == [database EXCEPT !.scores = Append(@,
                    [student_id |-> student_id,
                     momentum_score |-> c.result.momentum_score])]
    IN  [raised |-> "no", db |-> _generate_alerts(saved, student_id, c.result.momentum_score),
         body |-> [student_id |-> student_id,
                   momentum_score |-> c.result.momentum_score,
                   pde_prediction |-> c.result.pde_prediction,
                   bayesian_prediction |-> c.result.bayesian_prediction,
                   uncertainty |-> c.result.uncertainty],
         est |-> c.est]

_get_momentum_history(database, student_id) ==
  LET scores == RowsOf(database.scores, student_id)
  IN  IF scores = <<>> THEN <<DefaultLevel>>
      ELSE [i \in DOMAIN scores |-> Points(scores[i].momentum_score)]

\* no AcademicMetric row
_get_academic_history(database, student_id) == <<DefaultLevel>>

_get_psychological_history(database, student_id) ==
  LET assessments == RowsOf(database.assessments, student_id)
  IN  IF assessments = <<>> THEN <<DefaultLevel>>
      ELSE [i \in DOMAIN assessments |->
              (10 * (assessments[i].stress_level + assessments[i].motivation
                       + assessments[i].confidence)) \div 3]

_calculate_support_level(database, student_id) ==
  LET avg_teacher == _get_average_teacher_feedback(database, student_id)
      assessments == RowsOf(database.assessments, student_id)
      social_support == IF assessments = <<>> THEN DefaultLevel
                        ELSE 10 * assessments[Len(assessments)].social_support
  IN  (6 * avg_teacher + 4 * social_support) \div 10

\* MomentumService.generate_forecast; the alert row refers to students, so
\* its commit fails (IntegrityError) for an id that is not a student
generate_forecast(database, student_id, forecast_days, sim, fit) ==
  LET f == comprehensive_forecast(_get_momentum_history(database, student_id),
                                  _get_academic_history(database, student_id),
                                  _get_psychological_history(database, student_id),
                                  _calculate_support_level(database, student_id),
                                  forecast_days, sim, fit)
      alerting == f.result.collapse_risk_level \in {"high", "critical"}
  IN  IF alerting /\ student_id \notin database.students
        THEN [raised |-> "IntegrityError", db |-> database, body |-> NoBody]
        ELSE [raised |-> "no",
              db |-> IF alerting
                       THEN [database EXCEPT !.alerts = Append(@,
                               [student_id |-> student_id, alert_type |-> "collapse_risk",
                                severity |-> f.result.collapse_risk_level])]
                       ELSE database,
              body |-> f.result]

\* except ValueError: 404; except Exception: 500
StatusOf(raised) ==
  IF raised = "no" THEN 200 ELSE IF raised = "ValueError" THEN 404 ELSE 500

\* POST /momentum/calculate: a MomentumService, and with it a calculator and
\* an estimator, is built for the request
calculate_momentum(database, request, solution) ==
  LET service == [calculator |-> NewEstimator]
      r == calculate_student_momentum(database, service.calculator, request.student_id,
                                      request.teacher_feedback, solution)
  IN  [status |-> StatusOf(r.raised), db |-> r.db, body |-> r.body,
       evidence_before |-> Len(service.calculator.training_data), est |-> r.est]

\* POST /forecast/collapse
forecast_academic_collapse(database, request, sim, fit) ==
  LET r == generate_forecast(database, request.student_id, request.forecast_days, sim, fit)
  IN  [status |-> StatusOf(r.raised), db |-> r.db, body |-> r.body]

MomentumCalculateRequests ==
  {[student_id |-> s, teacher_feedback |-> fb] : s \in StudentIds, fb \in {<<>>, <<80>>}}

ServiceForecastRequests ==
  {[student_id |-> s, forecast_days |-> MinForecastDays] : s \in StudentIds}

ServiceSolutions == {[success |-> TRUE, y |-> <<m>> \o RawOut] : m \in {0, 500, 1300}}

ServiceSims ==
  {MakeSim(mm, c, c, MinForecastDays, NSimulations) :
     c \in {0, NSimulations}, mm \in {Steady(MinForecastDays), Slide(MinForecastDays)}}

\* a student and, for the forecast, a momentum history are on record
Found(database, op, student_id) ==
  /\ student_id \in database.students
  /\ IF op = "calculate_momentum"
       THEN RowsOf(database.assessments, student_id) # <<>>
       ELSE RowsOf(database.scores, student_id) # <<>>

InitService ==
  /\ training_data = NewEstimator.training_data
  /\ gp = NewEstimator.gp
  /\ req = None
  /\ ret = None
  /\ AgentFresh
  /\ frames = NoFrames
  /\ db = InitialDatabase

\* training_data and gp are the estimator of the request's service as the
\* request leaves it
CalculateMomentum ==
  /\ Len(db.scores) < MaxRecords
  /\ Len(db.alerts) < MaxRecords
  /\ \E request \in MomentumCalculateRequests, sol \in ServiceSolutions :
       LET r == calculate_momentum(db, request, sol)
       IN  /\ db' = r.db
           /\ training_data' = r.est.training_data
           /\ gp' = r.est.gp
           /\ ret' = [op |-> "calculate_momentum", student_id |-> request.student_id,
                      found |-> Found(db, "calculate_momentum", request.student_id),
                      status |-> r.status, body |-> r.body,
                      evidence_before |-> r.evidence_before]
  /\ UNCHANGED <<req, q_table, epsilon, seen, updates, frames>>

ForecastAcademicCollapse ==
  /\ Len(db.alerts) < MaxRecords
  /\ \E request \in ServiceForecastRequests, sim \in ServiceSims :
       LET r == forecast_academic_collapse(db, request, sim,
                                           [stage |-> "fit_failed", forecast |-> <<>>,
                                            lower_bound |-> <<>>, upper_bound |-> <<>>])
       IN  /\ db' = r.db
           /\ ret' = [op |-> "forecast_academic_collapse",
                      student_id |-> request.student_id,
                      found |-> Found(db, "forecast_academic_collapse", request.student_id),
                      status |-> r.status, body |-> r.body]
  /\ UNCHANGED <<training_data, gp, req, q_table, epsilon, seen, updates, frames>>

NextService == CalculateMomentum \/ ForecastAcademicCollapse

SpecService == InitService /\ [][NextService]_vars

(***************************************************************************)
(* CatastropheTheoryAnalyzer.analyze_collapse_risk alone, on a grid that    *)
(* is dense around the midpoint 50.                                        *)
(***************************************************************************)
CatStress == {x \in 0..100 : x % 5 = 0 \/ (40 <= x /\ x <= 60)}
CatSupport == {x \in 0..100 : x % 10 = 0 \/ (44 <= x /\ x <= 56)}
CatMomentum == {x \in 0..100 : x % 10 = 0 \/ (48 <= x /\ x <= 52)}

InitCat ==
  /\ training_data = NewEstimator.training_data
  /\ gp = NewEstimator.gp
  /\ req \in {[op |-> "analyze", momentum |-> m, stress |-> st, support |-> su] :
                m \in CatMomentum, st \in CatStress, su \in CatSupport}
  /\ ret = None
  /\ AgentFresh
  /\ Detached

Analyze ==
  /\ req.op = "analyze"
  /\ ret = None
  /\ ret' = [op |-> "analyze",
             value |-> analyze_collapse_risk(req.momentum, req.stress, req.support)]
  /\ UNCHANGED <<training_data, gp, req, q_table, epsilon, seen, updates, frames, db>>

NextCat == Analyze

SpecCat == InitCat /\ [][NextCat]_vars

(***************************************************************************)
(* Claims on the estimator, the calculator and the dynamics model.         *)
(***************************************************************************)
InRange(x) == 0 <= x /\ x <= 1000

AllInRange(v) == \A i \in DOMAIN v : InRange(v[i])

\* C1: whenever the evidence set holds fewer than 10 pairs, predict returns
\* exactly (50.0, 20.0), for every feature vector and after any sequence of
\* update, predict and get_confidence_interval calls.
C1_DefaultBelowTen ==
  (ret.op = "predict" /\ ret.n < 10) => ret.value = <<500, 200>>

C1_Witness ==
  /\ ret.op = "predict"
  /\ ret.n = 9
  /\ ret.features = Features1
  /\ ret.value = <<500, 200>>

\* C2: with 10 or more pairs in the evidence set the regression has been
\* fitted, on the whole evidence set, so predict never reads a regressor
\* that was never fitted.
C2_FittedFromTen ==
  Len(training_data) >= 10 => (gp.fitted /\ gp.train = training_data)

\* C3: a calculate_comprehensive_score call returns 0.6 x deterministic
\* prediction + 0.4 x probabilistic mean, the mean being one that predict
\* gives on the evidence held before the call, and appends exactly one pair,
\* (the call's feature vector, the returned score), to the evidence set.
C3_CombineThenAppend ==
  [][ret'.op = "calculate" =>
       LET r == ret'.result
           f == ret'.student_state.academic_state
                  \o ret'.student_state.psychological_state
                  \o <<ret'.teacher_feedback>>
       IN  /\ 10 * r.momentum_score = 6 * r.pde_prediction + 4 * r.bayesian_prediction
           /\ Len(training_data) < 10 => r.bayesian_prediction = 500
           /\ r.bayesian_prediction \in {predict(est_now, f, post)[1] : post \in GPPosterior}
           /\ training_data' = Append(training_data, <<f, r.momentum_score>>)]_vars

C3_Witness ==
  /\ ret.op = "calculate"
  /\ ret.n = 11
  /\ ret.result.bayesian_prediction = 1100
  /\ ret.result.pde_prediction = 0
  /\ ret.result.momentum_score = 440
  /\ Len(training_data) = 12
  /\ training_data[12] = <<Features0, 440>>

\* C4: every calculate_comprehensive_score call on a state whose momentum is
\* in [0,100] returns a momentum_score in [0,100], whatever calls came before.
C4_ScoreInRange ==
  (ret.op = "calculate" /\ InRange(ret.student_state.momentum_score))
    => InRange(ret.result.momentum_score)

\* C5: the state solve returns has its momentum, every academic component
\* and every psychological component in [0,100].
C5_SolveClamped ==
  ret.op = "solve" =>
    /\ InRange(ret.state.momentum_score)
    /\ AllInRange(ret.state.academic_state)
    /\ AllInRange(ret.state.psychological_state)

\* C6: when the integrator reports failure, solve returns the initial state
\* unmodified, field by field.
C6_FailureReturnsInitial ==
  (ret.op = "solve" /\ ~ret.success) => ret.state = req.initial_state

C6_Witness ==
  /\ ret.op = "solve"
  /\ ~ret.success
  /\ req.time_horizon = 7
  /\ req.params.teacher_intervention = 50
  /\ ret.state = req.initial_state

(***************************************************************************)
(* Claims on the forecasting engine.                                       *)
(***************************************************************************)
\* C7: the collapse probability of a ForecastResult is 0.25 x catastrophe risk
\* + 0.30 x stochastic collapse probability + 0.25 x pattern-based probability
\* + 0.20 x (1 - stability_score), and lies in [0,1].
C7_CollapseProbabilityInUnit ==
  ret.op = "forecast" =>
    LET p == ret.result.collapse_probability
        q == ret.parts
    IN  /\ 10000 * p = 2500 * q.catastrophe.collapse_risk
                         + 3000 * q.stochastic_probability
                         + 2500 * q.ml_collapse_prob
                         + 2000 * (10000 - q.stability.stability_score)
        /\ 0 <= p
        /\ p <= 10000

C7_Witness ==
  /\ ret.op = "forecast"
  /\ ret.parts.catastrophe.collapse_risk = 8000
  /\ ret.parts.stochastic_probability = 10000
  /\ ret.parts.ml_collapse_prob = 9000
  /\ ret.parts.stability.stability_score = 1000
  /\ ret.result.collapse_probability = 9050

\* C8: risk level and urgency follow the collapse probability p with exclusive
\* lower bounds: p > 0.7 critical/95, 0.5 < p <= 0.7 high/75,
\* 0.3 < p <= 0.5 medium/50, p <= 0.3 low/20.
C8_RiskLevelThresholds ==
  ret.op = "forecast" =>
    LET p == ret.result.collapse_probability
        lv == <<ret.result.collapse_risk_level, ret.result.intervention_urgency>>
    IN  /\ p > 7000 => lv = <<"critical", 95>>
        /\ (5000 < p /\ p <= 7000) => lv = <<"high", 75>>
        /\ (3000 < p /\ p <= 5000) => lv = <<"medium", 50>>
        /\ p <= 3000 => lv = <<"low", 20>>

C8_Witness ==
  /\ ret.op = "forecast"
  /\ ret.result.collapse_probability = 7000
  /\ ret.result.collapse_risk_level = "high"
  /\ ret.result.intervention_urgency = 75

\* C9: analyze_collapse_risk assigns the risk by strict precedence: 0.8 when
\* |4a^3 + 27b^2| < 0.1, else 0.6 when 3x^2 + a is not positive, else 0.5 when
\* x^3 + ax + b has more than one real root (4a^3 + 27b^2 negative), else 0.2;
\* analyze(50, 50, 50) is near the bifurcation set with risk 0.8.
C9_RiskPrecedence ==
  ret.op = "analyze" =>
    LET s == req.stress - 50
        t == req.support - 50
        m == req.momentum - 50
        d == 4 * s * s * s + 675 * t * t
        near == (-15625 < 10 * d) /\ (10 * d < 15625)
        unstable == 3 * m * m + 25 * s <= 0
        several == d < 0
    IN  /\ ret.value.near_bifurcation = near
        /\ ret.value.is_stable = ~unstable
        /\ ret.value.collapse_risk =
             (IF near THEN 8000 ELSE IF unstable THEN 6000
              ELSE IF several THEN 5000 ELSE 2000)
        /\ (s = 0 /\ t = 0 /\ m = 0) =>
             (ret.value.near_bifurcation /\ ret.value.collapse_risk = 8000)

C9_Witness ==
  /\ ret.op = "analyze"
  /\ req.momentum = 50
  /\ req.stress = 50
  /\ req.support = 50
  /\ ret.value.near_bifurcation
  /\ ~ret.value.is_stable
  /\ ret.value.collapse_risk = 8000

InterventionTypes(list) == [i \in DOMAIN list |-> list[i].type]

\* C10: recommended_interventions is non-empty and holds exactly the triggered
\* rules in the order immediate counseling (p > 0.6), stress management
\* (stress > 70), academic recovery plan (momentum < 30), preventive
\* intervention (near bifurcation), then one general-monitoring entry, last.
C10_InterventionsInOrder ==
  ret.op = "forecast" =>
    LET types == InterventionTypes(ret.result.recommended_interventions)
        stress == Current(req.psychological_history)
        momentum == Current(req.momentum_history)
        expected ==
          (IF ret.result.collapse_probability > 6000
             THEN <<"immediate_counseling">> ELSE <<>>)
          \o (IF stress > 70 THEN <<"stress_management">> ELSE <<>>)
          \o (IF momentum < 30 THEN <<"academic_recovery_plan">> ELSE <<>>)
          \o (IF ret.parts.catastrophe.near_bifurcation
                THEN <<"preventive_intervention">> ELSE <<>>)
          \o <<"ongoing_monitoring">>
    IN  /\ types = expected
        /\ Len(types) >= 1
        /\ types[Len(types)] = "ongoing_monitoring"
        /\ Cardinality({i \in DOMAIN types : types[i] = "ongoing_monitoring"}) = 1

C10_Witness ==
  /\ ret.op = "forecast"
  /\ InterventionTypes(ret.result.recommended_interventions) =
       <<"immediate_counseling", "academic_recovery_plan",
         "preventive_intervention", "ongoing_monitoring">>

NoMajorRiskFactors == "No major risk factors identified"

\* C11: primary_risk_factors is never empty, and the 'no major risk factors'
\* entry appears exactly when no check fires (momentum < 30, academic < 40,
\* psychological > 70, near bifurcation, catastrophe-unstable, stability
\* verdict unstable); it is then the only entry.
C11_RiskFactors ==
  ret.op = "forecast" =>
    LET factors == ret.result.primary_risk_factors
        fires == \/ Current(req.momentum_history) < 30
                 \/ Current(req.academic_history) < 40
                 \/ Current(req.psychological_history) > 70
                 \/ ret.parts.catastrophe.near_bifurcation
                 \/ ~ret.parts.catastrophe.is_stable
                 \/ ret.parts.stability.stability = "unstable"
    IN  /\ Len(factors) >= 1
        /\ Contains(factors, NoMajorRiskFactors) <=> ~fires
        /\ ~fires => factors = <<NoMajorRiskFactors>>

C11_Witness ==
  /\ ret.op = "forecast"
  /\ Current(req.psychological_history) = 70
  /\ ret.result.primary_risk_factors = <<NoMajorRiskFactors>>

\* C12: days_until_collapse is the index of the first forecast day whose mean
\* momentum is below 20 (every earlier day is at 20 or above), and is none
\* exactly when no day of the forecast is below 20.
C12_DaysUntilCollapse ==
  ret.op = "forecast" =>
    LET mf == ret.result.momentum_forecast
        days == ret.result.days_until_collapse
    IN  IF \E i \in DOMAIN mf : mf[i] < 20
          THEN /\ days # NoCollapse
               /\ LET d == days[1]
                  IN  /\ d \in 0..(Len(mf) - 1)
                      /\ mf[d + 1] < 20
                      /\ \A i \in 1..d : mf[i] >= 20
          ELSE days = NoCollapse

C12_Witness ==
  /\ ret.op = "forecast"
  /\ Len(ret.result.momentum_forecast) = ForecastDays
  /\ ret.result.momentum_forecast[2] = 20
  /\ ret.result.days_until_collapse = <<2>>

\* C13: the optimal intervention day is max(0, s - 2), s being the day of the
\* steepest single-day decline of the forecast mean (the first one on ties);
\* when no day-to-day difference is negative it is length // 2; it always lies
\* in [0, horizon - 1].
C13_OptimalTiming ==
  ret.op = "forecast" =>
    LET mf == ret.result.momentum_forecast
        t == ret.result.optimal_intervention_timing
        n == Len(mf)
        diffs == [i \in 1..(n - 1) |-> mf[i + 1] - mf[i]]
        declines == \E i \in DOMAIN diffs : diffs[i] < 0
    IN  /\ declines =>
              \E s \in DOMAIN diffs :
                /\ \A j \in DOMAIN diffs : diffs[s] <= diffs[j]
                /\ \A j \in 1..(s - 1) : diffs[j] > diffs[s]
                /\ t = (IF (s - 1) - 2 > 0 THEN (s - 1) - 2 ELSE 0)
        /\ ~declines => t = n \div 2
        /\ 0 <= t
        /\ t <= n - 1

C13_Witness ==
  /\ ret.op = "forecast"
  /\ ret.result.momentum_forecast = LateDrop(ForecastDays)
  /\ ret.result.optimal_intervention_timing = ForecastDays - 5

\* C14: momentum_forecast, academic_forecast and psychological_forecast each
\* hold exactly forecast_days values, for every forecast_days >= 1 and
\* histories of one point or more.
C14_ForecastLengths ==
  ret.op = "forecast" =>
    /\ Len(ret.result.momentum_forecast) = req.forecast_days
    /\ Len(ret.result.academic_forecast) = req.forecast_days
    /\ Len(ret.result.psychological_forecast) = req.forecast_days

C14_Witness ==
  /\ ret.op = "forecast"
  /\ req.forecast_days = ForecastDays
  /\ Len(req.momentum_history) = 1
  /\ Len(ret.result.momentum_forecast) = ForecastDays
  /\ Len(ret.result.academic_forecast) = ForecastDays
  /\ Len(ret.result.psychological_forecast) = ForecastDays

\* C15: simulate returns collapse_probability equal to the fraction of the
\* n_simulations runs whose momentum after the last simulated time step of the
\* n_days horizon is below 20.
C15_CollapseFractionAtEnd ==
  ret.op = "simulate" =>
    req.n_simulations * ret.value.collapse_probability = 10000 * ret.end_below

\* C16: for every series of 1 to 9 points and every horizon >= 1 the
\* forecaster does not raise and returns the baseline forecast, whose first
\* value equals last_value * 0.98.
C16_BaselineFirstValue ==
  (ret.op = "forecast_series" /\ Len(req.time_series) \in 1..9) =>
    /\ ~ret.value.raised
    /\ ret.value.model = "baseline"
    /\ ret.value.forecast[1] = 9800 * req.time_series[Len(req.time_series)]

\* C17: for every series of 10 or more points, when fitting the model or
\* producing its forecast fails, the forecaster returns the baseline forecast
\* of a short series (model name 'baseline', built from the last observed
\* value by the 2% daily decay, with the +-10 band) and raises nothing.
C17_FallbackToBaseline ==
  (ret.op = "forecast_series" /\ Len(req.time_series) >= 10 /\ ret.stage # "ok") =>
    LET v == ret.value
        h == req.forecast_horizon
        last == req.time_series[Len(req.time_series)]
    IN  /\ ~v.raised
        /\ v.model = "baseline"
        /\ Len(v.forecast) = h
        /\ v.forecast[1] = 10000 * last
        /\ \A i \in 1..(h - 1) : v.forecast[i + 1] = (98 * v.forecast[i]) \div 100
        /\ v.lower_bound = [i \in 1..h |-> v.forecast[i] - 100000]
        /\ v.upper_bound = [i \in 1..h |-> v.forecast[i] + 100000]

C17_Witness ==
  /\ ret.op = "forecast_series"
  /\ req.op = "fit_predict_arima"
  /\ Len(req.time_series) = 10
  /\ ret.stage = "forecast_failed"
  /\ ret.value.model = "baseline"
  /\ ret.value.forecast = <<730000, 715400, 701092>>

(***************************************************************************)
(* Claims on the Q-learning agent.                                         *)
(***************************************************************************)
\* C18: over any sequence of update and get_action calls epsilon never
\* increases and never falls below 0.01; every update multiplies it by 0.995,
\* floored at 0.01, and get_action leaves it unchanged.
C18_EpsilonDecay ==
  /\ [](epsilon >= 10000)
  /\ [][/\ epsilon' <= epsilon
        /\ ret'.op = "update" =>
              epsilon' = (IF (995 * epsilon) \div 1000 > 10000
                            THEN (995 * epsilon) \div 1000 ELSE 10000)
        /\ ret'.op = "get_action" => epsilon' = epsilon]_vars

C18_Witness ==
  /\ ret.op = "update"
  /\ updates = 1
  /\ epsilon = 10000
  /\ q_table[<<1, 5>>][1] = -1000

\* C19 as stated: an update of a (state, action) pair whose reward exceeds
\* the pair's current action-value strictly increases that value, be the
\* update terminal or not.
C19_RewardAboveValueRaises ==
  [][(ret'.op = "update" /\ ret'.reward > ret'.current_q) =>
       q_table'[discretize_state(ret'.state)][ret'.action + 1] > ret'.current_q]_vars

\* C19 as amended: an update whose reward exceeds the current action-value
\* never lowers that value, and strictly increases it when a tenth of the
\* excess is at least one unit of the stored value, provided the update is
\* terminal or the next state's largest action-value is not negative.
C19_RaisesWhenNextNotNegative ==
  [][ret'.op = "update" =>
       LET key == discretize_state(ret'.state)
           next_key == discretize_state(ret'.next_state)
           before == ret'.current_q
           after == q_table'[key][ret'.action + 1]
           next_not_negative ==
             \/ ret'.done
             \/ next_key \notin DOMAIN q_table
             \/ \E i \in 1..ActionDim : q_table[next_key][i] >= 0
       IN  /\ (next_not_negative /\ ret'.reward > before) => after >= before
           /\ (next_not_negative /\ ret'.reward - before >= 10) => after > before]_vars

C19_Witness ==
  /\ ret.op = "update"
  /\ updates = 2
  /\ ~ret.done
  /\ ret.reward = 2000
  /\ ret.next_state = StateA2
  /\ ret.current_q = 697
  /\ q_table[<<1, 5>>][ActionDim] = 893

\* C20: the Q-table never loses a key, every entry holds exactly 6
\* action-values, and a discretized state is a key exactly when it has been
\* passed to get_action (exploring or not) or to update as state or as
\* next_state.
C20_QTableGrowth ==
  /\ [](/\ DOMAIN q_table = seen
        /\ \A k \in DOMAIN q_table : Len(q_table[k]) = 6)
  /\ [][DOMAIN q_table \subseteq DOMAIN q_table']_vars

C20_Witness ==
  /\ ret.op = "update"
  /\ ret.done
  /\ ret.next_state = StateB
  /\ updates = 1
  /\ epsilon = 199000
  /\ DOMAIN q_table = {<<1, 5>>, <<9, 5>>}
  /\ seen = {<<1, 5>>, <<9, 5>>}

(***************************************************************************)
(* Claims on the evidence set, the update rule and the returned velocity.  *)
(***************************************************************************)
\* C21: the evidence set only grows: an update call appends exactly its
\* (features, observed value) pair at the end and leaves the earlier pairs as
\* they were; predict and get_confidence_interval leave the set unchanged.
C21_EvidenceAppendOnly ==
  [][/\ ret'.op = "update" =>
          training_data' = Append(training_data, <<ret'.features, ret'.momentum_score>>)
     /\ ret'.op \in {"predict", "confidence_interval"} =>
          training_data' = training_data]_vars

C21_Witness ==
  /\ ret.op = "update"
  /\ ret.features = Features1
  /\ Len(training_data) = MinSamples + 1
  /\ training_data[1] = <<Features0, 675>>
  /\ training_data[MinSamples + 1] = <<Features1, 675>>
  /\ gp.fitted

\* C26: update(state, action, reward, next_state, terminal) sets
\* Q[state][action] to Q + 0.1 x (target - Q), where target is the reward
\* when terminal and reward + 0.95 x (largest action-value of next_state, as
\* it is before the write) otherwise; every other action-value that was in
\* the table before the call is unchanged.
C26_UpdateRule ==
  [][ret'.op = "update" =>
       LET key == discretize_state(ret'.state)
           next_key == discretize_state(ret'.next_state)
           a == ret'.action + 1
           Q == ret'.current_q
           next_values == IF next_key = key
                            THEN [q_table'[key] EXCEPT ![a] = Q]
                            ELSE q_table'[next_key]
           best == CHOOSE x \in {next_values[i] : i \in 1..6} :
                     \A i \in 1..6 : next_values[i] <= x
           target == IF ret'.done THEN ret'.reward
                     ELSE ret'.reward + (95 * best) \div 100
       IN  /\ key \in DOMAIN q_table => Q = q_table[key][a]
           /\ q_table'[key][a] = Q + (10 * (target - Q)) \div 100
           /\ \A k \in DOMAIN q_table : \A i \in 1..6 :
                <<k, i>> # <<key, a>> => q_table'[k][i] = q_table[k][i]]_vars

C26_Witness ==
  /\ ret.op = "update"
  /\ ~ret.done
  /\ ret.next_state = StateB
  /\ ret.reward = 2000
  /\ ret.current_q = 700
  /\ ret.td_target = -6646
  /\ q_table[<<1, 5>>] = <<100, 900, 300, 0, 999, -35>>
  /\ q_table[<<9, 5>>] = <<-9910, -9190, -9730, -10000, -9101, -9370>>

\* C27: the state a successful solve returns has learning_velocity =
\* (new_momentum - old_momentum) / horizon, where new_momentum is the
\* (clamped) momentum of the returned state and old_momentum the momentum of
\* the initial state.  The velocity is kept as the fraction
\* <<numerator, denominator>>.
C27_VelocityOfReturnedMomentum ==
  (ret.op = "solve" /\ ret.success) =>
    ret.state.learning_velocity[1] * req.time_horizon
      = (ret.state.momentum_score - req.initial_state.momentum_score)
          * ret.state.learning_velocity[2]

C29_PatternPredictorValues ==
  ret.op = "forecast" =>
    LET ml == ret.parts.ml_collapse_prob
    IN  /\ Len(req.momentum_history) < 5 => ml = 2000
        /\ Len(req.momentum_history) >= 5 =>
             ml \in {0, 1000, 2000, 3000, 4000, 5000, 6000, 7000, 9000}
        /\ ml <= 9000
        /\ ~rl_fitted

C29_Witness ==
  /\ ret.op = "forecast"
  /\ req.momentum_history = Ramp(25, -8, 30, 5)
  /\ ret.parts.ml_collapse_prob = 9000
  /\ ret.fit.stage = "not_called"

\* C30: in every ForecastResult, risk level critical implies that the first
\* recommended intervention is immediate counseling, and risk level low or
\* medium implies that immediate counseling is not in the list; risk level
\* high is found with and without it.
C30_CounselingFollowsRiskLevel ==
  ret.op = "forecast" =>
    LET types == InterventionTypes(ret.result.recommended_interventions)
        level == ret.result.collapse_risk_level
    IN  /\ level = "critical" => types[1] = "immediate_counseling"
        /\ level \in {"low", "medium"} => ~Contains(types, "immediate_counseling")

C30_Witness ==
  /\ ret.op = "forecast"
  /\ ret.result.collapse_risk_level = "high"
  /\ ret.result.collapse_probability = 6500
  /\ InterventionTypes(ret.result.recommended_interventions)[1] = "immediate_counseling"

RiskLevelIndex(level) ==
  IF level = "low" THEN 0 ELSE IF level = "medium" THEN 1
  ELSE IF level = "high" THEN 2 ELSE 3

AllDone == frames # NoFrames /\ \A t \in Threads : frames[t].pc = "done"

\* the instance after the call of thread first and then the call of the
\* other thread, each run alone
SerialAgent(first) ==
  LET c1 == frames[first]
      c2 == frames[3 - first]
      a1 == agent_update(req.instance, c1.state, c1.action, c1.reward,
                         c1.next_state, c1.done, c1.init, c1.next_init)
      a2 == agent_update([q_table |-> a1.q_table, epsilon |-> a1.epsilon],
                         c2.state, c2.action, c2.reward,
                         c2.next_state, c2.done, c2.init, c2.next_init)
  IN  <<a2.q_table, a2.epsilon>>

SerialEstimator(first) ==
  LET c1 == frames[first]
      c2 == frames[3 - first]
      e2 == update(update(req.instance, c1.features, c1.momentum_score),
                   c2.features, c2.momentum_score)
  IN  <<e2.training_data, e2.gp>>

\* C22: two concurrent update calls on one StrategyRecommender (or on one
\* PosteriorEstimator) leave the table and epsilon (or the evidence set and
\* the fitted model) as the two calls leave them in one of the two serial
\* orders, and the table never holds a partially written row.
C22_ConcurrentUpdatesSerialize ==
  /\ \A k \in DOMAIN q_table : Len(q_table[k]) = ActionDim
  /\ (AllDone /\ req.kind = "agent") =>
        <<q_table, epsilon>> \in {SerialAgent(1), SerialAgent(2)}
  /\ (AllDone /\ req.kind = "estimator") =>
        <<training_data, gp>> \in {SerialEstimator(1), SerialEstimator(2)}

\* C23: the evidence set persists across requests: the estimator a
\* successful compute_momentum request consults holds one evidence pair for
\* each successful request served before it (every successful request
\* stores one score row, and no other request does).
C23_EvidencePersistsAcrossRequests ==
  [][(ret'.op = "calculate_momentum" /\ ret'.status = 200) =>
       ret'.evidence_before = Len(db.scores)]_vars

\* C24: when no student or no history is found for the requested id, both
\* entry points answer not-found; neither returns a computed result nor
\* writes a score row or an alert.
C24_NotFoundSurfaced ==
  [][(ret'.op \in {"calculate_momentum", "forecast_academic_collapse"} /\ ~ret'.found) =>
       /\ ret'.status = 404
       /\ ret'.body = NoBody
       /\ db' = db]_vars

====
